---- MODULE Spec2Model ----
(***************************************************************************)
(* Model of circuits/lib/irc.py: the IRC component's line framer           *)
(* (splitLines / onREAD), line parser (onRAW), session record (_info),     *)
(* default ping handler (onPING) and outgoing command formatters (ircXXX). *)
(*                                                                         *)
(* Encoding of Python values:                                              *)
(*   str   a sequence of one-character strings, "abc" is <<"a","b","c">>   *)
(*   None  the one-element sequence <<"None">> (no str has such an element)*)
(*   int   a natural number; NoneInt stands for None in the argument       *)
(*         positions of ircNICK that are formatted with %d                 *)
(*   dict  _info is a function on the seven keys the code uses; a key the  *)
(*         dict does not hold maps to None, which is what dict.get(k,      *)
(*         None) returns for it                                            *)
(* An exception raised by a handler or a command is recorded in err; the   *)
(* assignments and pushes made before the raise are kept, as in Python.    *)
(***************************************************************************)
EXTENDS Integers, Sequences, FiniteSets, TLC

VARIABLES
    wire,       \* bytes the transport has not delivered yet (environment)
    fed,        \* history: all bytes delivered to onREAD so far
    _data,      \* IRC._data, the framing buffer
    _info,      \* IRC._info, the session record
    queue,      \* the manager's event queue, filled by self.push
    emitted,    \* history: every event pushed so far, in push order
    written,    \* history: every string passed to self.write, in order
    err,        \* exception raised by the last handler or command, or NoErr
    calls,      \* number of ircXXX commands the application has called
    lastCall,   \* history: name and arguments of the last call of the application
    returned    \* value returned by the last module-level function called

vars == <<wire, fed, _data, _info, queue, emitted, written, err, calls, lastCall, returned>>

---------------------------------------------------------------------------
(* Bounds *)

MaxLen == 4         \* longest byte stream of the framer specification
MaxCalls == 1       \* ircXXX commands called by the application in a run
MaxDepth == 3       \* interpreter recursion limit (frames of one command)
MaxSourceLen == 5   \* longest string given to sourceSplit

---------------------------------------------------------------------------
(* Characters and strings *)

CR == "\r"
LF == "\n"
SP == " "
COLON == ":"
CTCPDELIM == "x01"      \* the byte 0x01
BOLD == "x02"           \* the byte 0x02

None == <<"None">>
NoneInt == 0 - 1
NoErr == "ok"

UpperChars == <<"A","B","C","D","E","F","G","H","I","J","K","L","M",
                "N","O","P","Q","R","S","T","U","V","W","X","Y","Z">>
LowerChars == <<"a","b","c","d","e","f","g","h","i","j","k","l","m",
                "n","o","p","q","r","s","t","u","v","w","x","y","z">>
Digits == <<"0","1","2","3","4","5","6","7","8","9">>

Min(S) == CHOOSE m \in S : \A k \in S : m <= k
Max(S) == CHOOSE m \in S : \A k \in S : m >= k

IndexIn(c, chars) == Min({i \in 1..Len(chars) : chars[i] = c})
IsIn(c, chars) == \E i \in 1..Len(chars) : chars[i] = c

\* str.lower()
lowerChar(c) == IF IsIn(c, UpperChars) THEN LowerChars[IndexIn(c, UpperChars)] ELSE c
lower(s) == [i \in 1..Len(s) |-> lowerChar(s[i])]

Drop(s, n) == SubSeq(s, n + 1, Len(s))
Take(s, n) == SubSeq(s, 1, n)
StartsWith(s, p) == Len(s) >= Len(p) /\ Take(s, Len(p)) = p
\* does p occur in s starting at index i
OccursAt(s, p, i) == i >= 1 /\ i + Len(p) - 1 <= Len(s) /\ SubSeq(s, i, i + Len(p) - 1) = p

\* str.split(sep) for a one-character sep: every sep cuts, empty pieces are kept
RECURSIVE split(_, _)
split(s, sep) ==
    IF \A i \in 1..Len(s) : s[i] # sep
    THEN <<s>>
    ELSE LET i == Min({j \in 1..Len(s) : s[j] = sep})
         IN  <<Take(s, i - 1)>> \o split(Drop(s, i), sep)

\* sep.join(tokens)
RECURSIVE join(_, _)
join(tokens, sep) ==
    IF Len(tokens) = 0 THEN <<>>
    ELSE IF Len(tokens) = 1 THEN tokens[1]
    ELSE tokens[1] \o <<sep>> \o join(Tail(tokens), sep)

\* tokens[n:] with a 0-based n, as Python slices it (never raises)
From(tokens, n) == SubSeq(tokens, n + 1, Len(tokens))

\* str.replace(c, "") for a one-character c
RECURSIVE remove(_, _)
remove(s, c) ==
    IF Len(s) = 0 THEN <<>>
    ELSE (IF s[1] = c THEN <<>> ELSE <<s[1]>>) \o remove(Tail(s), c)

\* str.rstrip(c) for a one-character c
RECURSIVE rstrip(_, _)
rstrip(s, c) ==
    IF Len(s) > 0 /\ s[Len(s)] = c THEN rstrip(Take(s, Len(s) - 1), c) ELSE s

---------------------------------------------------------------------------
(* Supporting functions *)

\* LINESEP.split(s), LINESEP = re.compile("\r?\n"): the leftmost match is at
\* the first "\n", widened by the "\r" right before it when there is one
RECURSIVE LINESEP_split(_)
LINESEP_split(s) ==
    IF \A i \in 1..Len(s) : s[i] # LF
    THEN <<s>>
    ELSE LET i == Min({j \in 1..Len(s) : s[j] = LF})
             e == IF i > 1 /\ s[i - 1] = CR THEN i - 2 ELSE i - 1
         IN  <<Take(s, e)>> \o LINESEP_split(Drop(s, i))

\* splitLines(s, buffer) -> lines, buffer
splitLines_ignoring_buffer(s, buffer) ==
    LET lines == LINESEP_split(s)
    IN  <<Take(lines, Len(lines) - 1), lines[Len(lines)]>>

splitLines(s, buffer) ==
    LET lines == LINESEP_split(buffer \o s)
    IN  <<Take(lines, Len(lines) - 1), lines[Len(lines)]>>

\* strip(s, color=False)
strip(s, color) ==
    LET s1 == IF Len(s) > 0 /\ s[1] = COLON THEN Tail(s) ELSE s
    IN  IF color THEN remove(remove(s1, CTCPDELIM), BOLD) ELSE s1

\* "%s" % x
S_NoneText == <<"N","o","n","e">>
fmt_s(x) == IF x = None THEN S_NoneText ELSE x

\* sourceJoin(nick, ident, host): "%s!%s@%s" % (nick, ident, host)
sourceJoin(nick, ident, host) == fmt_s(nick) \o <<"!">> \o fmt_s(ident) \o <<"@">> \o fmt_s(host)

\* the "." of a pattern matches any character but the line feed
Dots(s, from, to) == \A j \in from..to : s[j] # LF

\* the places of "!" and "@" in a match of
\* "(?P<nick>[^!].*)!(?P<ident>.*)@(?P<host>.*)" at the start of source
sourceBang(source, b) ==
    /\ source[b] = "!"
    /\ Dots(source, 2, b - 1)
    /\ \E a \in (b + 1)..Len(source) : source[a] = "@" /\ Dots(source, b + 1, a - 1)

sourceMatches_any_nick(source) ==
    /\ Len(source) >= 1
    /\ \E b \in 2..Len(source) : sourceBang(source, b)

\* re.match(...) is not None
sourceMatches(source) ==
    /\ Len(source) >= 1
    /\ source[1] # "!"
    /\ \E b \in 2..Len(source) : sourceBang(source, b)

\* sourceSplit(source) -> nick, ident, host: the greedy nick takes the last "!"
\* that leaves a match, the greedy ident the last "@" after it, the host runs
\* to the end or to the first line feed
sourceSplit(source) ==
    IF sourceMatches(source)
    THEN LET b == Max({j \in 2..Len(source) : sourceBang(source, j)})
             a == Max({j \in (b + 1)..Len(source) :
                        source[j] = "@" /\ Dots(source, b + 1, j - 1)})
             e == Min({j \in (a + 1)..(Len(source) + 1) :
                        j = Len(source) + 1 \/ source[j] = LF})
         IN  <<Take(source, b - 1), SubSeq(source, b + 1, a - 1), SubSeq(source, a + 1, e - 1)>>
    ELSE <<source, None, None>>

---------------------------------------------------------------------------
(* String literals of the source *)

S_PING == <<"P","I","N","G">>
S_PONG == <<"P","O","N","G">>
S_NICK == <<"N","I","C","K">>
S_TOPIC == <<"T","O","P","I","C">>
S_NETINFO == <<"N","E","T","I","N","F","O">>
S_PRIVMSG == <<"P","R","I","V","M","S","G">>
S_NOTICE == <<"N","O","T","I","C","E">>
S_JOIN == <<"J","O","I","N">>
S_PART == <<"P","A","R","T">>
S_QUIT == <<"Q","U","I","T">>
S_MOTD == <<"M","O","T","D">>
S_MODE == <<"M","O","D","E">>
S_USER == <<"U","S","E","R">>
S_PASS == <<"P","A","S","S">>
S_WelcomeToThe == <<"W","e","l","c","o","m","e"," ","t","o"," ","t","h","e"," ">>
S_IRC_Network == <<" ","I","R","C"," ","N","e","t","w","o","r","k"," ">>
S_InternetRelay_Network == <<" ","I","n","t","e","r","n","e","t"," ","R","e","l","a","y"," ","N","e","t","w","o","r","k"," ">>
S_InternetRelayChat_Network == <<" ","I","n","t","e","r","n","e","t"," ","R","e","l","a","y"," ","C","h","a","t"," ","N","e","t","w","o","r","k"," ">>
S_WelcomeToTheInternetRelayNetwork == <<"W","e","l","c","o","m","e"," ","t","o"," ","t","h","e"," ","I","n","t","e","r","n","e","t"," ","R","e","l","a","y"," ","N","e","t","w","o","r","k"," ">>
S_IRC_NetworkComma == <<" ","I","R","C"," ","N","e","t","w","o","r","k",","," ">>

RPL_WELCOME == 1
RPL_YOURHOST == 2

---------------------------------------------------------------------------
(* Python list indexing and int() *)

Has(tokens, k) == Len(tokens) > k       \* tokens[k] does not raise IndexError
Tok(tokens, k) == tokens[k + 1]         \* tokens[k], k counted from 0 as in the source

\* int(s) returns for a string of decimal digits and raises ValueError for the
\* other strings the model feeds it
IsInt(s) == Len(s) > 0 /\ \A i \in 1..Len(s) : IsIn(s[i], Digits)

RECURSIVE int(_)
int(s) == IF Len(s) = 0 THEN 0
          ELSE 10 * int(Take(s, Len(s) - 1)) + (IndexIn(s[Len(s)], Digits) - 1)

\* re.match("[0-9]+", s): a match at the start of s, the end is not anchored
MatchesDigits(s) == Len(s) > 0 /\ IsIn(s[1], Digits)

Now == <<"time.time()">>                \* the value time.time() returns

---------------------------------------------------------------------------
(* Events and the result of a handler *)

Ev(kind, args) == [kind |-> kind, args |-> args]

\* what one run of a handler or command did: the session record it leaves,
\* the events it pushed, the strings it wrote, the exception it raised
R(info, pushes, e) == [info |-> info, pushes |-> pushes, writes |-> <<>>, err |-> e]
W(info, writes, e) == [info |-> info, pushes |-> <<>>, writes |-> writes, err |-> e]

InfoKeys == {"nick", "ident", "host", "server", "serverVersion", "network", "name"}

\* IRC.__init__: self._info = {}
EmptyInfo == [k \in InfoKeys |-> None]

getNick(info) == info["nick"]
getIdent(info) == info["ident"]
getHost(info) == info["host"]
getServer(info) == info["server"]
getServerVersion(info) == info["serverVersion"]
getNetwork(info) == info["network"]
getName(info) == info["name"]

---------------------------------------------------------------------------
(* RPL_WELCOME greeting patterns *)

NoMatch == [matched |-> FALSE, hasNetwork |-> FALSE, network |-> <<>>, user |-> <<>>]

\* re.match(prefix "(?P<network>.*)" (mids[1]|mids[2]|...) "(?P<user>.*)", message):
\* the greedy network group ends at the last place where one of mids occurs
MatchNetUser(message, prefix, mids) ==
    LET pos == {i \in (Len(prefix) + 1)..Len(message) :
                    \E k \in 1..Len(mids) : OccursAt(message, mids[k], i)}
    IN  IF StartsWith(message, prefix) /\ pos # {}
        THEN LET i == Max(pos)
                 mid == mids[Min({k \in 1..Len(mids) : OccursAt(message, mids[k], i)})]
             IN  [matched |-> TRUE, hasNetwork |-> TRUE,
                  network |-> SubSeq(message, Len(prefix) + 1, i - 1),
                  user |-> Drop(message, i + Len(mid) - 1)]
        ELSE NoMatch

\* "Welcome to the (?P<network>.*) (IRC|Internet Relay( Chat)?) Network (?P<user>.*)"
Greeting1(message) ==
    MatchNetUser(message, S_WelcomeToThe,
                 <<S_IRC_Network, S_InternetRelay_Network, S_InternetRelayChat_Network>>)

\* "Welcome to the Internet Relay Network (?P<user>.*)": no network group
Greeting2(message) ==
    IF StartsWith(message, S_WelcomeToTheInternetRelayNetwork)
    THEN [matched |-> TRUE, hasNetwork |-> FALSE, network |-> <<>>,
          user |-> Drop(message, Len(S_WelcomeToTheInternetRelayNetwork))]
    ELSE NoMatch

\* "Welcome to the (?P<network>.*) IRC Network, (?P<user>.*)"
Greeting3(message) ==
    MatchNetUser(message, S_WelcomeToThe, <<S_IRC_NetworkComma>>)

WelcomeMatch_third_first(message) ==
    IF Greeting3(message).matched THEN Greeting3(message)
    ELSE IF Greeting1(message).matched THEN Greeting1(message)
    ELSE Greeting2(message)

\* the three re.match calls of the RPL_WELCOME branch, in source order
WelcomeMatch(message) ==
    IF Greeting1(message).matched THEN Greeting1(message)
    ELSE IF Greeting2(message).matched THEN Greeting2(message)
    ELSE Greeting3(message)

\* d.get("network", ""): groupdict() has the key only for a pattern with the group
NetworkOf(m) == IF m.hasNetwork THEN m.network ELSE <<>>

---------------------------------------------------------------------------
(* onRAW, one branch per definition *)

IndexError == "IndexError"
ValueError == "ValueError"
AttributeError == "AttributeError"
TypeError == "TypeError"
RuntimeError == "RuntimeError"

\* source = sourceSplit(strip(tokens[0].lower()))[0]
SourceOf(tokens) == sourceSplit(strip(lower(Tok(tokens, 0)), FALSE))[1]

onRAW_PING_no_lower(tokens, info) ==
    IF ~Has(tokens, 1) THEN R(info, <<>>, IndexError)
    ELSE R(info, <<Ev("ping", <<strip(Tok(tokens, 1), FALSE)>>)>>, NoErr)

\* tokens[0] == "PING"
onRAW_PING(tokens, info) ==
    IF ~Has(tokens, 1) THEN R(info, <<>>, IndexError)
    ELSE R(info, <<Ev("ping", <<lower(strip(Tok(tokens, 1), FALSE))>>)>>, NoErr)

\* tokens[0] == "NICK": NewNick takes tokens 1..6 and tokens[8:], not tokens[7]
onRAW_NEWNICK(tokens, info) ==
    IF ~Has(tokens, 2) THEN R(info, <<>>, IndexError)
    ELSE IF ~IsInt(Tok(tokens, 2)) THEN R(info, <<>>, ValueError)
    ELSE IF ~Has(tokens, 3) THEN R(info, <<>>, IndexError)
    ELSE IF ~IsInt(Tok(tokens, 3)) THEN R(info, <<>>, ValueError)
    ELSE IF ~Has(tokens, 6) THEN R(info, <<>>, IndexError)
    ELSE R(info, <<Ev("newnick", <<lower(Tok(tokens, 1)), int(Tok(tokens, 2)),
                                   int(Tok(tokens, 3)), lower(Tok(tokens, 4)),
                                   lower(Tok(tokens, 5)), lower(Tok(tokens, 6)),
                                   strip(join(From(tokens, 8), SP), FALSE)>>)>>, NoErr)

\* tokens[0] == "TOPIC"
onRAW_TOPIC(tokens, info) ==
    IF ~Has(tokens, 3) THEN R(info, <<>>, IndexError)
    ELSE IF ~IsInt(Tok(tokens, 3)) THEN R(info, <<>>, ValueError)
    ELSE R(info, <<Ev("topic", <<Tok(tokens, 1), Tok(tokens, 2), int(Tok(tokens, 3)),
                                 strip(join(From(tokens, 4), SP), FALSE)>>)>>, NoErr)

\* tokens[0] == "NETINFO"
onRAW_NETINFO(tokens, info) ==
    IF ~Has(tokens, 1) THEN R(info, <<>>, IndexError)
    ELSE IF ~IsInt(Tok(tokens, 1)) THEN R(info, <<>>, ValueError)
    ELSE IF ~Has(tokens, 2) THEN R(info, <<>>, IndexError)
    ELSE IF ~IsInt(Tok(tokens, 2)) THEN R(info, <<>>, ValueError)
    ELSE IF ~Has(tokens, 7) THEN R(info, <<>>, IndexError)
    ELSE R(info, <<Ev("netinfo", <<int(Tok(tokens, 1)), int(Tok(tokens, 2)),
                                   Tok(tokens, 3), Tok(tokens, 4), Tok(tokens, 5),
                                   Tok(tokens, 6), Tok(tokens, 7),
                                   strip(join(From(tokens, 8), SP), FALSE)>>)>>, NoErr)

\* arg of a numeric line; tokens[3] exists
NumericArg(tokens) ==
    IF Len(Tok(tokens, 3)) > 1
    THEN IF Tok(tokens, 3)[1] = COLON THEN None ELSE Tok(tokens, 3)
    ELSE None

\* message of a numeric line; tokens[3] exists
NumericMessage(tokens) ==
    IF Len(Tok(tokens, 3)) > 1 /\ Tok(tokens, 3)[1] = COLON
    THEN strip(join(From(tokens, 3), SP), FALSE)
    ELSE strip(join(From(tokens, 4), SP), FALSE)

\* if numeric == RPL_WELCOME: m is one of the three matches, m.groupdict()
\* raises AttributeError when all three returned None
onRAW_WELCOME(message, info) ==
    LET m == WelcomeMatch(message)
    IN  IF ~m.matched THEN R(info, <<>>, AttributeError)
        ELSE LET ss == sourceSplit(m.user)
             IN  R([info EXCEPT !["network"] = NetworkOf(m),
                                !["nick"] = ss[1],
                                !["ident"] = IF ss[2] # None THEN ss[2] ELSE @,
                                !["host"] = IF ss[3] # None THEN ss[3] ELSE @],
                   <<>>, NoErr)

\* elif numeric == RPL_YOURHOST: _info["server"] is assigned before tokens[6]
\* is read
onRAW_YOURHOST(message, info) ==
    LET tokens == split(message, SP)
    IN  IF ~Has(tokens, 3) THEN R(info, <<>>, IndexError)
        ELSE IF ~Has(tokens, 6)
        THEN R([info EXCEPT !["server"] = rstrip(Tok(tokens, 3), ",")], <<>>, IndexError)
        ELSE R([info EXCEPT !["server"] = rstrip(Tok(tokens, 3), ","),
                            !["serverVersion"] = Tok(tokens, 6)], <<>>, NoErr)

\* elif re.match("[0-9]+", tokens[1])
onRAW_NUMERIC(tokens, info) ==
    IF ~Has(tokens, 2) THEN R(info, <<>>, IndexError)
    ELSE IF ~IsInt(Tok(tokens, 1)) THEN R(info, <<>>, ValueError)
    ELSE IF ~Has(tokens, 3) THEN R(info, <<>>, IndexError)
    ELSE LET source == SourceOf(tokens)
             target == lower(Tok(tokens, 2))
             numeric == int(Tok(tokens, 1))
             arg == NumericArg(tokens)
             message == NumericMessage(tokens)
             r == IF numeric = RPL_WELCOME THEN onRAW_WELCOME(message, info)
                  ELSE IF numeric = RPL_YOURHOST THEN onRAW_YOURHOST(message, info)
                  ELSE R(info, <<>>, NoErr)
         IN  IF r.err # NoErr THEN r
             ELSE R(r.info, <<Ev("numeric", <<source, target, numeric, arg, message>>)>>, NoErr)

onRAW_PRIVMSG_type_as_sent(tokens, info) ==
    IF ~Has(tokens, 2) THEN R(info, <<>>, IndexError)
    ELSE LET source == SourceOf(tokens)
             target == lower(Tok(tokens, 2))
             message == strip(join(From(tokens, 3), SP), FALSE)
         IN  IF message # <<>> /\ message[1] = CTCPDELIM
             THEN LET ctokens == split(strip(message, TRUE), SP)
                  IN  R(info, <<Ev("ctcp", <<source, target, Tok(ctokens, 0),
                                             join(From(ctokens, 1), SP)>>)>>, NoErr)
             ELSE R(info, <<Ev("message", <<source, target, message>>)>>, NoErr)

\* elif tokens[1] == "PRIVMSG"
onRAW_PRIVMSG(tokens, info) ==
    IF ~Has(tokens, 2) THEN R(info, <<>>, IndexError)
    ELSE LET source == SourceOf(tokens)
             target == lower(Tok(tokens, 2))
             message == strip(join(From(tokens, 3), SP), FALSE)
         IN  IF message # <<>> /\ message[1] = CTCPDELIM
             THEN LET ctokens == split(strip(message, TRUE), SP)
                      type == lower(Tok(ctokens, 0))
                  IN  R(info, <<Ev("ctcp", <<source, target, type,
                                             join(From(ctokens, 1), SP)>>)>>, NoErr)
             ELSE R(info, <<Ev("message", <<source, target, message>>)>>, NoErr)

\* elif tokens[1] == "NOTICE"
onRAW_NOTICE(tokens, info) ==
    IF ~Has(tokens, 2) THEN R(info, <<>>, IndexError)
    ELSE R(info, <<Ev("notice", <<SourceOf(tokens), lower(Tok(tokens, 2)),
                                  strip(join(From(tokens, 3), SP), FALSE)>>)>>, NoErr)

onRAW_JOIN_undivided(tokens, info) ==
    IF ~Has(tokens, 2) THEN R(info, <<>>, IndexError)
    ELSE R(info, <<Ev("join", <<SourceOf(tokens), lower(strip(Tok(tokens, 2), FALSE))>>)>>, NoErr)

\* elif tokens[1] == "JOIN": one push per piece of channels.split(",")
onRAW_JOIN(tokens, info) ==
    IF ~Has(tokens, 2) THEN R(info, <<>>, IndexError)
    ELSE LET source == SourceOf(tokens)
             channels == split(lower(strip(Tok(tokens, 2), FALSE)), ",")
         IN  R(info, [i \in 1..Len(channels) |-> Ev("join", <<source, channels[i]>>)], NoErr)

onRAW_PART_silent(tokens, info) ==
    IF ~Has(tokens, 2) THEN R(info, <<>>, IndexError)
    ELSE R(info, <<>>, NoErr)

\* elif tokens[1] == "PART"
onRAW_PART(tokens, info) ==
    IF ~Has(tokens, 2) THEN R(info, <<>>, IndexError)
    ELSE R(info, <<Ev("part", <<SourceOf(tokens), lower(strip(Tok(tokens, 2), FALSE)),
                                strip(join(From(tokens, 3), SP), FALSE)>>)>>, NoErr)

\* elif tokens[1] == "QUIT"
onRAW_QUIT(tokens, info) ==
    R(info, <<Ev("quit", <<SourceOf(tokens), strip(join(From(tokens, 2), SP), FALSE)>>)>>, NoErr)

onRAW_NICK_exact_case(tokens, info) ==
    IF ~Has(tokens, 2) THEN R(info, <<>>, IndexError)
    ELSE LET source == SourceOf(tokens)
             newNick == lower(strip(Tok(tokens, 2), FALSE))
             own == getNick(info) # None /\ source = getNick(info)
             ctime == IF Len(tokens) = 4 THEN strip(Tok(tokens, 3), FALSE) ELSE Now
         IN  R(IF own THEN [info EXCEPT !["nick"] = newNick] ELSE info,
               <<Ev("nick", <<source, newNick, ctime>>)>>, NoErr)

\* elif tokens[1] == "NICK"
onRAW_NICK(tokens, info) ==
    IF ~Has(tokens, 2) THEN R(info, <<>>, IndexError)
    ELSE LET source == SourceOf(tokens)
             newNick == lower(strip(Tok(tokens, 2), FALSE))
             own == getNick(info) # None /\ lower(source) = lower(getNick(info))
             ctime == IF Len(tokens) = 4 THEN strip(Tok(tokens, 3), FALSE) ELSE Now
         IN  R(IF own THEN [info EXCEPT !["nick"] = newNick] ELSE info,
               <<Ev("nick", <<source, newNick, ctime>>)>>, NoErr)

\* elif tokens[1] == "MOTD"
onRAW_MOTD(tokens, info) ==
    IF ~Has(tokens, 2) THEN R(info, <<>>, IndexError)
    ELSE R(info, <<Ev("motd", <<SourceOf(tokens), lower(strip(Tok(tokens, 2), FALSE))>>)>>, NoErr)

\* onRAW(line): the if/elif chain; tokens[1] of a one-token line raises
\* IndexError in the first elif that reads it
onRAW(line, info) ==
    LET tokens == split(line, SP)
    IN  IF Tok(tokens, 0) = S_PING THEN onRAW_PING(tokens, info)
        ELSE IF Tok(tokens, 0) = S_NICK THEN onRAW_NEWNICK(tokens, info)
        ELSE IF Tok(tokens, 0) = S_TOPIC THEN onRAW_TOPIC(tokens, info)
        ELSE IF Tok(tokens, 0) = S_NETINFO THEN onRAW_NETINFO(tokens, info)
        ELSE IF ~Has(tokens, 1) THEN R(info, <<>>, IndexError)
        ELSE IF MatchesDigits(Tok(tokens, 1)) THEN onRAW_NUMERIC(tokens, info)
        ELSE IF Tok(tokens, 1) = S_PRIVMSG THEN onRAW_PRIVMSG(tokens, info)
        ELSE IF Tok(tokens, 1) = S_NOTICE THEN onRAW_NOTICE(tokens, info)
        ELSE IF Tok(tokens, 1) = S_JOIN THEN onRAW_JOIN(tokens, info)
        ELSE IF Tok(tokens, 1) = S_PART THEN onRAW_PART(tokens, info)
        ELSE IF Tok(tokens, 1) = S_QUIT THEN onRAW_QUIT(tokens, info)
        ELSE IF Tok(tokens, 1) = S_NICK THEN onRAW_NICK(tokens, info)
        ELSE IF Tok(tokens, 1) = S_MOTD THEN onRAW_MOTD(tokens, info)
        ELSE R(info, <<>>, NoErr)

---------------------------------------------------------------------------
(* IRC commands *)

CRLF == <<CR, LF>>

\* "%d" % n for an int n
RECURSIVE fmt_d(_)
fmt_d(n) == IF n < 10 THEN <<Digits[n + 1]>>
            ELSE fmt_d(n \div 10) \o <<Digits[(n % 10) + 1]>>

\* sep.join of already formatted pieces
Words(pieces) == join(pieces, SP)

\* ircRAW(data): self.write("%s\r\n" % data)
ircRAW(data, info) == W(info, <<data \o CRLF>>, NoErr)

ircPASS(password, info) == ircRAW(Words(<<S_PASS, fmt_s(password)>>), info)

ircUSER_also_nick(ident, host, server, name, info) ==
    LET q == <<"\"">>
        r == ircRAW(Words(<<S_USER, fmt_s(ident), q \o fmt_s(host) \o q,
                            q \o fmt_s(server) \o q, <<COLON>> \o fmt_s(name)>>), info)
    IN  [r EXCEPT !.info = [info EXCEPT !["nick"] = ident, !["ident"] = ident, !["host"] = host,
                                        !["server"] = server, !["name"] = name]]

\* ircUSER: the line is written, then the four keys are assigned
ircUSER(ident, host, server, name, info) ==
    LET q == <<"\"">>
        r == ircRAW(Words(<<S_USER, fmt_s(ident), q \o fmt_s(host) \o q,
                            q \o fmt_s(server) \o q, <<COLON>> \o fmt_s(name)>>), info)
    IN  [r EXCEPT !.info = [info EXCEPT !["ident"] = ident, !["host"] = host,
                                        !["server"] = server, !["name"] = name]]

\* a Python value as far as the lambda of ircNICK looks at it
PyVal(isNone) == [none |-> isNone]
\* lambda x, y: x is not None and y is not None; the result is a bool, never None
NotNoneLambda(x, y) == PyVal(FALSE) @@ [truth |-> (~x.none /\ ~y.none)]

\* reduce(function, list) over a list of two or more elements
RECURSIVE reduce_from(_, _)
reduce_from(acc, rest) ==
    IF Len(rest) = 0 THEN acc
    ELSE reduce_from(NotNoneLambda(acc, Head(rest)), Tail(rest))
reduce(list) == reduce_from(Head(list), Tail(list))

\* ircNICK(nick, idle, signon, ident, host, server, hops, name); "%d" % None
\* raises TypeError
ircNICK(nick, idle, signon, ident, host, server, hops, name, info) ==
    IF reduce(<<PyVal(idle = NoneInt), PyVal(signon = NoneInt), PyVal(ident = None),
                PyVal(host = None), PyVal(server = None), PyVal(hops = NoneInt),
                PyVal(name = None)>>).truth
    THEN IF idle = NoneInt \/ signon = NoneInt \/ hops = NoneInt
         THEN W(info, <<>>, TypeError)
         ELSE ircRAW(Words(<<S_NICK, fmt_s(nick), fmt_d(idle), fmt_d(signon), fmt_s(ident),
                             fmt_s(host), fmt_s(server), fmt_d(hops),
                             <<COLON>> \o fmt_s(name)>>), info)
    ELSE ircRAW(Words(<<S_NICK, fmt_s(nick)>>), info)

ircPING(server, info) == ircRAW(Words(<<S_PING, <<COLON>> \o fmt_s(server)>>), info)

ircPONG(server, info) == ircRAW(Words(<<S_PONG, <<COLON>> \o fmt_s(server)>>), info)

\* ":%s " % source, or nothing when source is None
Prefix(source) == IF source = None THEN <<>> ELSE <<<<COLON>> \o fmt_s(source)>>

ircQUIT(message, source, info) ==
    ircRAW(Words(Prefix(source) \o <<S_QUIT, <<COLON>> \o fmt_s(message)>>), info)

ircJOIN(channel, key, source, info) ==
    ircRAW(Words(Prefix(source) \o <<S_JOIN, fmt_s(channel)>>
                 \o (IF key = None THEN <<>> ELSE <<fmt_s(key)>>)), info)

ircPART(channel, message, source, info) ==
    ircRAW(Words(Prefix(source) \o <<S_PART, fmt_s(channel), <<COLON>> \o fmt_s(message)>>), info)

ircPRIVMSG(target, message, source, info) ==
    ircRAW(Words(Prefix(source) \o <<S_PRIVMSG, fmt_s(target), <<COLON>> \o fmt_s(message)>>), info)

ircNOTICE(target, message, source, info) ==
    ircRAW(Words(Prefix(source) \o <<S_NOTICE, fmt_s(target), <<COLON>> \o fmt_s(message)>>), info)

\* ircSERVER: "SERVER %s %s %s :%s"; hops is a number, written by %s as by %d
ircSERVER(server, hops, token, description, info) ==
    ircRAW(Words(<<<<"S","E","R","V","E","R">>, fmt_s(server), fmt_d(hops), fmt_s(token),
                   <<COLON>> \o fmt_s(description)>>), info)

\* ircCTCP: self.ircPRIVMSG(target, "%s %s" % (type, message), source)
ircCTCP(target, type, message, source, info) ==
    ircPRIVMSG(target, Words(<<fmt_s(type), fmt_s(message)>>), source, info)

\* ircCTCPREPLY: self.ircNOTICE(target, "%s %s" % (type, message), source)
ircCTCPREPLY(target, type, message, source, info) ==
    ircNOTICE(target, Words(<<fmt_s(type), fmt_s(message)>>), source, info)

ircKICK(channel, target, message, source, info) ==
    ircRAW(Words(Prefix(source) \o <<<<"K","I","C","K">>, fmt_s(channel), fmt_s(target),
                                     <<COLON>> \o fmt_s(message)>>), info)

\* ircTOPIC: the long form formats whenset with %d, which raises TypeError for None
ircTOPIC(channel, topic, whoset, whenset, source, info) ==
    IF whoset = None /\ whenset = NoneInt
    THEN ircRAW(Words(Prefix(source) \o <<S_TOPIC, fmt_s(channel), <<COLON>> \o fmt_s(topic)>>), info)
    ELSE IF whenset = NoneInt THEN W(info, <<>>, TypeError)
    ELSE ircRAW(Words(Prefix(source) \o <<S_TOPIC, fmt_s(channel), fmt_s(whoset), fmt_d(whenset),
                                          <<COLON>> \o fmt_s(topic)>>), info)

ircKILL(target, message, info) ==
    ircRAW(Words(<<<<"K","I","L","L">>, fmt_s(target), <<COLON>> \o fmt_s(message)>>), info)

ircINVITE(target, channel, source, info) ==
    ircRAW(Words(Prefix(source) \o <<<<"I","N","V","I","T","E">>, fmt_s(target), fmt_s(channel)>>), info)

\* the string ircMODE passes on: to itself, as modes, with channel and source
\* left at their default None
ModeLine(modes, channel, source) ==
    Words(Prefix(source) \o <<S_MODE>>
          \o (IF channel = None THEN <<>> ELSE <<fmt_s(channel)>>)
          \o << <<COLON>> \o fmt_s(modes)>>)

\* ircMODE(modes, channel, source): every branch calls self.ircMODE, none calls
\* ircRAW; the interpreter stops the recursion at its limit with RuntimeError
RECURSIVE ircMODE(_, _, _, _, _)
ircMODE(modes, channel, source, info, depth) ==
    IF depth >= MaxDepth THEN W(info, <<>>, RuntimeError)
    ELSE ircMODE(ModeLine(modes, channel, source), None, None, info, depth + 1)

\* onPING(server): the default ping handler
onPING(server, info) == ircPONG(server, info)

---------------------------------------------------------------------------
(* Input lines of the engine specification *)

\* PING :irc.example.net
L_PING == <<"P","I","N","G"," ",":","i","r","c",".","e","x","a","m","p","l","e",".","n","e","t">>
\* PING :Irc.A
L_PING_upper == <<"P","I","N","G"," ",":","I","r","c",".","A">>
\* PING b
L_PING_bare == <<"P","I","N","G"," ","b">>
\* PING
L_PING_short == <<"P","I","N","G">>
\* :s 001 bob :Welcome to the ExampleNet IRC Network, bob!b@host
L_WELCOME_example == <<":","s"," ","0","0","1"," ","b","o","b"," ",":","W","e","l","c","o","m","e"," ","t","o"," ","t","h","e"," ","E","x","a","m","p","l","e","N","e","t"," ","I","R","C"," ","N","e","t","w","o","r","k",","," ","b","o","b","!","b","@","h","o","s","t">>
\* :s 001 b :Welcome to the Internet Relay Network kdb!-kdb@h
L_WELCOME_nonet == <<":","s"," ","0","0","1"," ","b"," ",":","W","e","l","c","o","m","e"," ","t","o"," ","t","h","e"," ","I","n","t","e","r","n","e","t"," ","R","e","l","a","y"," ","N","e","t","w","o","r","k"," ","k","d","b","!","-","k","d","b","@","h">>
\* :s 001 b :Welcome to the Un IRC Network joe
L_WELCOME_first == <<":","s"," ","0","0","1"," ","b"," ",":","W","e","l","c","o","m","e"," ","t","o"," ","t","h","e"," ","U","n"," ","I","R","C"," ","N","e","t","w","o","r","k"," ","j","o","e">>
\* :s 001 b :Welcome to the A IRC Network, IRC Network c
L_WELCOME_both == <<":","s"," ","0","0","1"," ","b"," ",":","W","e","l","c","o","m","e"," ","t","o"," ","t","h","e"," ","A"," ","I","R","C"," ","N","e","t","w","o","r","k",","," ","I","R","C"," ","N","e","t","w","o","r","k"," ","c">>
\* :s 001 b :Hello b
L_WELCOME_nomatch == <<":","s"," ","0","0","1"," ","b"," ",":","H","e","l","l","o"," ","b">>
\* :s 002 b :Your host is S, running version V
L_YOURHOST == <<":","s"," ","0","0","2"," ","b"," ",":","Y","o","u","r"," ","h","o","s","t"," ","i","s"," ","S",","," ","r","u","n","n","i","n","g"," ","v","e","r","s","i","o","n"," ","V">>
\* :s 002 b :Your host is S,
L_YOURHOST_short == <<":","s"," ","0","0","2"," ","b"," ",":","Y","o","u","r"," ","h","o","s","t"," ","i","s"," ","S",",">>
\* :S!i@h 372 B :- motd
L_NUMERIC == <<":","S","!","i","@","h"," ","3","7","2"," ","B"," ",":","-"," ","m","o","t","d">>
\* :s 353 b = #c :x y
L_NUMERIC_arg == <<":","s"," ","3","5","3"," ","b"," ","="," ","#","c"," ",":","x"," ","y">>
\* :s 12ab b :x
L_NUMERIC_bad == <<":","s"," ","1","2","a","b"," ","b"," ",":","x">>
\* the empty line
L_EMPTY == <<>>
\* FOO
L_ONE == <<"F","O","O">>
\* FOO bar baz
L_UNKNOWN == <<"F","O","O"," ","b","a","r"," ","b","a","z">>
\* :Alice!a@host PRIVMSG #Chan :Hello there
L_PRIVMSG == <<":","A","l","i","c","e","!","a","@","h","o","s","t"," ","P","R","I","V","M","S","G"," ","#","C","h","a","n"," ",":","H","e","l","l","o"," ","t","h","e","r","e">>
\* :Alice!a@host PRIVMSG #chan :\x01VERSION\x01
L_CTCP == <<":","A","l","i","c","e","!","a","@","h","o","s","t"," ","P","R","I","V","M","S","G"," ","#","c","h","a","n"," ",":",CTCPDELIM,"V","E","R","S","I","O","N",CTCPDELIM>>
\* :al NOTICE #c :\x01x
\* a CTCP text with 0x02 bytes inside, and a PRIVMSG with no text
L_CTCP_bold == <<":","a","l"," ","P","R","I","V","M","S","G"," ","#","c"," ",":",CTCPDELIM,"A","C","T","I","O","N"," ",BOLD,"h","i",BOLD," ","x",CTCPDELIM>>
L_PRIVMSG_empty == <<":","a","l"," ","P","R","I","V","M","S","G"," ","#","c"," ",":">>

L_NOTICE == <<":","a","l"," ","N","O","T","I","C","E"," ","#","c"," ",":",CTCPDELIM,"x">>
\* :a!i@h JOIN #x,#y
L_JOIN == <<":","a","!","i","@","h"," ","J","O","I","N"," ","#","x",",","#","y">>
\* :a!i@h PART #x :bye
\* a list of three, one in capitals, behind a colon
L_JOIN_three == <<":","a","l"," ","J","O","I","N"," ",":","#","A",",","#","b",",","#","c">>

L_PART == <<":","a","!","i","@","h"," ","P","A","R","T"," ","#","x"," ",":","b","y","e">>
\* :a!i@h QUIT :gone away
L_QUIT == <<":","a","!","i","@","h"," ","Q","U","I","T"," ",":","g","o","n","e"," ","a","w","a","y">>
\* :Bob!b@host NICK :Rob
L_NICK_own == <<":","B","o","b","!","b","@","h","o","s","t"," ","N","I","C","K"," ",":","R","o","b">>
\* :al!a@h NICK al2 99
L_NICK_other == <<":","a","l","!","a","@","h"," ","N","I","C","K"," ","a","l","2"," ","9","9">>
\* :s MOTD :S2
\* a greeting that stores a nick in capitals, and that nick's own NICK line
L_WELCOME_caps == <<":","s"," ","0","0","1"," ","b"," ",":","W","e","l","c","o","m","e"," ","t","o"," ","t","h","e"," ","N"," ","I","R","C"," ","N","e","t","w","o","r","k"," ","J","o","e">>
L_NICK_caps == <<":","j","o","e","!","j","@","h"," ","N","I","C","K"," ","J","2">>

L_MOTD == <<":","s"," ","M","O","T","D"," ",":","S","2">>
\* NICK Joe 5 7 Id Ho Sv 2 :Joe B
L_NEWNICK == <<"N","I","C","K"," ","J","o","e"," ","5"," ","7"," ","I","d"," ","H","o"," ","S","v"," ","2"," ",":","J","o","e"," ","B">>
\* TOPIC #c al 9 :the topic
L_TOPIC == <<"T","O","P","I","C"," ","#","c"," ","a","l"," ","9"," ",":","t","h","e"," ","t","o","p","i","c">>
\* NETINFO 1 2 a b c d e :net x
L_NETINFO == <<"N","E","T","I","N","F","O"," ","1"," ","2"," ","a"," ","b"," ","c"," ","d"," ","e"," ",":","n","e","t"," ","x">>

Lines == {L_PING, L_PING_upper, L_PING_bare, L_PING_short,
          L_WELCOME_example, L_WELCOME_nonet, L_WELCOME_first, L_WELCOME_both,
          L_WELCOME_nomatch, L_YOURHOST, L_YOURHOST_short, L_NUMERIC,
          L_NUMERIC_arg, L_NUMERIC_bad, L_EMPTY, L_ONE,
          L_UNKNOWN, L_PRIVMSG, L_CTCP, L_CTCP_bold, L_PRIVMSG_empty, L_NOTICE,
          L_JOIN, L_JOIN_three, L_PART, L_QUIT, L_NICK_own,
          L_NICK_other, L_MOTD, L_NEWNICK, L_TOPIC,
          L_NETINFO}

\* streams of several lines: order of events, and session fields set by one
\* line and met by the next
Scenarios ==
    { L_PING_bare \o CRLF \o L_JOIN \o <<LF>> \o L_PING_upper \o CRLF,
      L_WELCOME_example \o CRLF \o L_WELCOME_nonet \o CRLF,
      L_WELCOME_example \o <<LF>> \o L_WELCOME_first \o <<LF>>,
      L_WELCOME_example \o CRLF \o L_WELCOME_nomatch \o CRLF,
      L_WELCOME_example \o CRLF \o L_NICK_own \o CRLF,
      L_WELCOME_example \o CRLF \o L_NICK_other \o CRLF,
      L_WELCOME_caps \o <<LF>> \o L_NICK_caps \o <<LF>>,
      L_YOURHOST \o CRLF \o L_YOURHOST_short \o CRLF }

Streams == {l \o CRLF : l \in Lines} \cup Scenarios

\* every string over a three-letter alphabet, up to MaxLen bytes
RECURSIVE StringsUpTo(_, _)
StringsUpTo(alphabet, n) ==
    IF n = 0 THEN {<<>>}
    ELSE LET shorter == StringsUpTo(alphabet, n - 1)
         IN  shorter \cup {Append(w, c) : w \in shorter, c \in alphabet}

FramerStreams == StringsUpTo({"a", CR, LF}, MaxLen)

---------------------------------------------------------------------------
(* Event processing *)

\* number of Raw events among es
NRaw(es) == Cardinality({i \in 1..Len(es) : es[i].kind = "raw"})

\* for line in lines: self.push(Raw(line), "raw", self.channel); the field
\* line is history: the position of the line among all framed lines
RawEvents_reversed(lines, base) ==
    [i \in 1..Len(lines) |->
        Ev("raw", <<lines[Len(lines) + 1 - i]>>) @@ [line |-> base + Len(lines) + 1 - i]]

RawEvents(lines, base) ==
    [i \in 1..Len(lines) |-> Ev("raw", <<lines[i]>>) @@ [line |-> base + i]]

\* the events a handler pushed, marked with the line it was handling
Tagged(pushes, n) == [i \in 1..Len(pushes) |-> pushes[i] @@ [line |-> n]]

\* self.push(event, channel, target): the event joins the end of the queue
Push(q, events) == q \o events

\* onREAD(data)
onREAD(data) ==
    LET sl == splitLines(data, _data)
        evs == RawEvents(sl[1], NRaw(emitted))
    IN  /\ _data' = sl[2]
        /\ queue' = Push(queue, evs)
        /\ emitted' = emitted \o evs
        /\ err' = NoErr
        /\ UNCHANGED <<_info, written, calls, lastCall, returned>>

\* the transport delivers the next bytes, cut anywhere
Read ==
    \E k \in 1..Len(wire) :
        /\ onREAD(Take(wire, k))
        /\ wire' = Drop(wire, k)
        /\ fed' = fed \o Take(wire, k)

\* the manager takes the event at the head of the queue and runs the handler
\* the component has for it; r is what the handler did
Handled(r) ==
    /\ queue' = Push(Tail(queue), Tagged(r.pushes, Head(queue).line))
    /\ emitted' = emitted \o Tagged(r.pushes, Head(queue).line)
    /\ written' = written \o r.writes
    /\ _info' = r.info
    /\ err' = r.err
    /\ UNCHANGED <<wire, fed, _data, calls, lastCall, returned>>

\* @listener("raw")
HandleRaw ==
    /\ queue # <<>>
    /\ Head(queue).kind = "raw"
    /\ Handled(onRAW(Head(queue).args[1], _info))

\* @listener("ping")
HandlePing ==
    /\ queue # <<>>
    /\ Head(queue).kind = "ping"
    /\ Handled(onPING(Head(queue).args[1], _info))

\* the other events have no listener in IRC
Deliver ==
    /\ queue # <<>>
    /\ Head(queue).kind \notin {"raw", "ping"}
    /\ Handled(R(_info, <<>>, NoErr))

---------------------------------------------------------------------------
(* Commands called by the application *)

Called(name, args, r) ==
    /\ calls < MaxCalls
    /\ calls' = calls + 1
    /\ lastCall' = [name |-> name, args |-> args]
    /\ _info' = r.info
    /\ written' = written \o r.writes
    /\ err' = r.err
    /\ UNCHANGED <<wire, fed, _data, queue, emitted, returned>>

A_bob == <<"b","o","b">>
A_Bob == <<"B","o","b"," ","B">>
A_i == <<"i">>
A_h == <<"h">>
A_sv == <<"s","v">>
A_chan == <<"#","c">>
A_Chan == <<"#","C">>
A_chans == <<"#","x",",","#","y">>
A_hi == <<"h","i"," ","y","o","u">>
A_ctcp == <<CTCPDELIM>> \o <<"V","E","R","S","I","O","N">>
A_al == <<"a","l">>
A_Al == <<"A","l","!","a","@","h">>
A_modes == <<"+","o">>
A_key == <<"k">>

OptInts == {NoneInt, 5}
Texts == {<<>>, A_hi, A_ctcp}
Sources == {None, A_al, A_Al}
Channels == {A_chan, A_Chan, A_chans}

CallUSER ==
    \E ident \in {A_i, None}, name \in {A_Bob} :
        Called("ircUSER", <<ident, A_h, A_sv, name>>, ircUSER(ident, A_h, A_sv, name, _info))

CallNICK ==
    \E idle \in OptInts, signon \in OptInts, ident \in {None, A_i}, host \in {None, A_h},
       server \in {None, A_sv}, hops \in OptInts, name \in {None, A_Bob} :
        Called("ircNICK", <<A_bob, idle, signon, ident, host, server, hops, name>>,
               ircNICK(A_bob, idle, signon, ident, host, server, hops, name, _info))

CallMODE ==
    \E channel \in {None, A_chan}, source \in {None, A_al} :
        Called("ircMODE", <<A_modes, channel, source>>,
               ircMODE(A_modes, channel, source, _info, 0))

CallPRIVMSG ==
    \E target \in Channels, message \in Texts, source \in Sources :
        Called("ircPRIVMSG", <<target, message, source>>,
               ircPRIVMSG(target, message, source, _info))

CallNOTICE ==
    \E target \in Channels, message \in Texts, source \in Sources :
        Called("ircNOTICE", <<target, message, source>>,
               ircNOTICE(target, message, source, _info))

CallJOIN ==
    \E channel \in Channels, key \in {None, A_key}, source \in Sources :
        Called("ircJOIN", <<channel, key, source>>, ircJOIN(channel, key, source, _info))

CallPART ==
    \E channel \in Channels, message \in Texts, source \in Sources :
        Called("ircPART", <<channel, message, source>>,
               ircPART(channel, message, source, _info))

CallQUIT ==
    \E message \in Texts, source \in Sources :
        Called("ircQUIT", <<message, source>>, ircQUIT(message, source, _info))

CallPING ==
    Called("ircPING", <<A_sv>>, ircPING(A_sv, _info))

CallPASS ==
    Called("ircPASS", <<A_key>>, ircPASS(A_key, _info))

\* the line last written comes back as input: the peer echoes it
Loopback ==
    /\ written # <<>>
    /\ fed = <<>>
    /\ onREAD(written[Len(written)])
    /\ fed' = written[Len(written)]
    /\ UNCHANGED wire

---------------------------------------------------------------------------
(* Specifications *)

\* the state IRC.__init__ leaves, with the byte stream the peer will send
InitWith(streams) ==
    /\ wire \in streams
    /\ fed = <<>>
    /\ _data = <<>>
    /\ _info = EmptyInfo
    /\ queue = <<>>
    /\ emitted = <<>>
    /\ written = <<>>
    /\ err = NoErr
    /\ calls = 0
    /\ lastCall = [name |-> "none", args |-> <<>>]
    /\ returned = <<>>

\* the engine: IRC lines arrive in chunks while the application sends commands
Init == InitWith(Streams)

Next ==
    \/ Read
    \/ HandleRaw
    \/ HandlePing
    \/ Deliver
    \/ CallUSER
    \/ CallPING

Spec == Init /\ [][Next]_vars

\* the framer: every short byte stream, cut into chunks in every way
InitFramer == InitWith(FramerStreams)

NextFramer ==
    \/ Read
    \/ HandleRaw

SpecFramer == InitFramer /\ [][NextFramer]_vars

\* the formatters: a command is called and the line it wrote is fed back
\* a session: greetings, nick changes and other lines, one stream per peer
SessionStreams ==
    { L_WELCOME_example \o <<LF>> \o L_NICK_own \o <<LF>> \o L_YOURHOST \o <<LF>>
        \o L_PRIVMSG \o <<LF>>,
      L_YOURHOST \o <<LF>> \o L_YOURHOST_short \o <<LF>> \o L_WELCOME_nonet \o <<LF>>
        \o L_NICK_other \o <<LF>> \o L_PING_bare \o <<LF>>,
      L_WELCOME_example \o <<LF>> \o L_WELCOME_nomatch \o <<LF>> \o L_WELCOME_first \o <<LF>>
        \o L_JOIN \o <<LF>> \o L_NEWNICK \o <<LF>> }

\* the transport delivers the bytes up to the end of the next line
ReadLine ==
    \E k \in 1..Len(wire) :
        /\ wire[k] = LF
        /\ \A j \in 1..(k - 1) : wire[j] # LF
        /\ onREAD(Take(wire, k))
        /\ wire' = Drop(wire, k)
        /\ fed' = fed \o Take(wire, k)

\* the application calls each command of the class, with one set of arguments
SessionUSER == Called("ircUSER", <<A_i, A_h, A_sv, A_Bob>>, ircUSER(A_i, A_h, A_sv, A_Bob, _info))
SessionRAW == Called("ircRAW", <<A_hi>>, ircRAW(A_hi, _info))
SessionPASS == Called("ircPASS", <<A_key>>, ircPASS(A_key, _info))
SessionSERVER == Called("ircSERVER", <<A_sv, 1, A_key, A_hi>>, ircSERVER(A_sv, 1, A_key, A_hi, _info))
SessionNICK ==
    \E name \in {None, A_Bob} :
        Called("ircNICK", <<A_bob, 5, 5, A_i, A_h, A_sv, 5, name>>,
               ircNICK(A_bob, 5, 5, A_i, A_h, A_sv, 5, name, _info))
SessionPING == Called("ircPING", <<A_sv>>, ircPING(A_sv, _info))
SessionPONG == Called("ircPONG", <<A_sv>>, ircPONG(A_sv, _info))
SessionQUIT == Called("ircQUIT", <<A_hi, None>>, ircQUIT(A_hi, None, _info))
SessionJOIN == Called("ircJOIN", <<A_chan, None, None>>, ircJOIN(A_chan, None, None, _info))
SessionPART == Called("ircPART", <<A_chan, A_hi, None>>, ircPART(A_chan, A_hi, None, _info))
SessionPRIVMSG ==
    Called("ircPRIVMSG", <<A_chan, A_hi, None>>, ircPRIVMSG(A_chan, A_hi, None, _info))
SessionNOTICE ==
    Called("ircNOTICE", <<A_chan, A_hi, A_al>>, ircNOTICE(A_chan, A_hi, A_al, _info))
SessionCTCP ==
    Called("ircCTCP", <<A_al, A_key, A_hi, None>>, ircCTCP(A_al, A_key, A_hi, None, _info))
SessionCTCPREPLY ==
    Called("ircCTCPREPLY", <<A_al, A_key, A_hi, None>>, ircCTCPREPLY(A_al, A_key, A_hi, None, _info))
SessionKICK ==
    Called("ircKICK", <<A_chan, A_al, <<>>, None>>, ircKICK(A_chan, A_al, <<>>, None, _info))
SessionTOPIC ==
    \E whoset \in {None, A_al} :
        Called("ircTOPIC", <<A_chan, A_hi, whoset, NoneInt, None>>,
               ircTOPIC(A_chan, A_hi, whoset, NoneInt, None, _info))
SessionMODE ==
    Called("ircMODE", <<A_modes, A_chan, None>>, ircMODE(A_modes, A_chan, None, _info, 0))
SessionKILL == Called("ircKILL", <<A_al, A_hi>>, ircKILL(A_al, A_hi, _info))
SessionINVITE ==
    Called("ircINVITE", <<A_al, A_chan, None>>, ircINVITE(A_al, A_chan, None, _info))

\* the session record: lines arrive whole while the application calls commands
InitSession == InitWith(SessionStreams)

NextSession ==
    \/ ReadLine
    \/ HandleRaw
    \/ HandlePing
    \/ Deliver
    \/ SessionUSER
    \/ SessionRAW
    \/ SessionPASS
    \/ SessionSERVER
    \/ SessionNICK
    \/ SessionPING
    \/ SessionPONG
    \/ SessionQUIT
    \/ SessionJOIN
    \/ SessionPART
    \/ SessionPRIVMSG
    \/ SessionNOTICE
    \/ SessionCTCP
    \/ SessionCTCPREPLY
    \/ SessionKICK
    \/ SessionTOPIC
    \/ SessionMODE
    \/ SessionKILL
    \/ SessionINVITE

SpecSession == InitSession /\ [][NextSession]_vars

\* the strings given to sourceSplit: names, the two marks and the line feed
SourceStrings == StringsUpTo({"a", "!", "@", LF}, MaxSourceLen)

\* the application splits a source
CallSourceSplit ==
    /\ lastCall.name = "none"
    /\ \E s \in SourceStrings :
           /\ lastCall' = [name |-> "sourceSplit", args |-> <<s>>]
           /\ returned' = sourceSplit(s)
    /\ UNCHANGED <<wire, fed, _data, _info, queue, emitted, written, err, calls>>

\* the application joins what sourceSplit returned: sourceJoin(*sourceSplit(s))
CallSourceJoin ==
    /\ lastCall.name = "sourceSplit"
    /\ lastCall' = [name |-> "sourceJoin", args |-> returned]
    /\ returned' = sourceJoin(returned[1], returned[2], returned[3])
    /\ UNCHANGED <<wire, fed, _data, _info, queue, emitted, written, err, calls>>

\* the two source functions alone
InitSource == InitWith({<<>>})
NextSource == CallSourceSplit \/ CallSourceJoin
SpecSource == InitSource /\ [][NextSource]_vars

InitCmd == InitWith({<<>>})

NextCmd ==
    \/ CallUSER
    \/ CallNICK
    \/ CallMODE
    \/ CallPRIVMSG
    \/ CallNOTICE
    \/ CallJOIN
    \/ CallPART
    \/ CallQUIT
    \/ CallPING
    \/ CallPASS
    \/ Loopback
    \/ HandleRaw
    \/ HandlePing
    \/ Deliver

SpecCmd == InitCmd /\ [][NextCmd]_vars

TypeOK ==
    /\ err \in {NoErr, IndexError, ValueError, AttributeError, TypeError, RuntimeError}
    /\ calls \in 0..MaxCalls
    /\ DOMAIN _info = InfoKeys

---------------------------------------------------------------------------
(* Properties *)

IsRaw(e) == e.kind = "raw"
IsTyped(e) == e.kind # "raw"
IsPing(e) == e.kind = "ping"

\* the lines of the Raw events pushed so far, in push order
RawLines == LET raws == SelectSeq(emitted, IsRaw)
            IN  [i \in 1..Len(raws) |-> raws[i].args[1]]

\* the Raw events and the Ping events the manager has already handed to
\* their handler: all that were pushed but those still in the queue
RawsHandled == LET raws == SelectSeq(emitted, IsRaw)
               IN  Take(raws, Len(raws) - Len(SelectSeq(queue, IsRaw)))
PingsHandled == LET pings == SelectSeq(emitted, IsPing)
                IN  Take(pings, Len(pings) - Len(SelectSeq(queue, IsPing)))

\* the typed events pushed for line number n, in push order
EventsOfLine(n) == LET of(e) == IsTyped(e) /\ e.line = n
                   IN  [i \in 1..Len(SelectSeq(emitted, of)) |->
                           Ev(SelectSeq(emitted, of)[i].kind, SelectSeq(emitted, of)[i].args)]

\* lines[1] ds[1] lines[2] ds[2] ... : each line followed by its delimiter
RECURSIVE Reassemble(_, _)
Reassemble(lines, ds) ==
    IF Len(lines) = 0 THEN <<>>
    ELSE lines[1] \o ds[1] \o Reassemble(Tail(lines), Tail(ds))

\* C1: however the bytes fed so far were cut into chunks, the lines emitted and
\* the remainder kept are those of one call on all the bytes, and the lines,
\* each followed by its delimiter ("\n" or "\r\n"), then the remainder, spell
\* the bytes fed
C1_ChunkingInvariance ==
    LET whole == splitLines(fed, <<>>)
    IN  /\ RawLines = whole[1]
        /\ _data = whole[2]
        /\ \E ds \in [1..Len(RawLines) -> {<<LF>>, CRLF}] :
               Reassemble(RawLines, ds) \o _data = fed

\* a line was emitted, then a chunk ended between "\r" and "\n"
C1_Witness ==
    /\ Len(emitted) >= 1
    /\ _data # <<>>
    /\ _data[Len(_data)] = CR
    /\ wire # <<>>
    /\ wire[1] = LF

\* C2: one Raw event per framed line, in arrival order, and no typed event of a
\* later line is pushed before a typed event of an earlier line
C2_EventOrder ==
    /\ RawLines = splitLines(fed, <<>>)[1]
    /\ LET raws == SelectSeq(emitted, IsRaw)
       IN  \A i \in 1..Len(raws) : raws[i].line = i
    /\ \A i \in 1..Len(emitted) : \A j \in i..Len(emitted) :
           IsTyped(emitted[i]) /\ IsTyped(emitted[j]) => emitted[i].line <= emitted[j].line
    /\ \A j \in 1..Len(emitted) :
           IsTyped(emitted[j]) =>
               \E i \in 1..(j - 1) : IsRaw(emitted[i]) /\ emitted[i].line = emitted[j].line

\* typed events of three lines have been pushed, the second line giving two
C2_Witness ==
    \E i, j, k \in 1..Len(emitted) :
        /\ i < j /\ j < k
        /\ emitted[i].kind = "ping" /\ emitted[j].kind = "join" /\ emitted[k].kind = "ping"
        /\ emitted[i].line = 1 /\ emitted[j].line = 2 /\ emitted[k].line = 3

IsPingLine(line) == Len(split(line, SP)) >= 2 /\ split(line, SP)[1] = S_PING
PingTarget(line) == lower(strip(split(line, SP)[2], FALSE))
IsPong(w) == StartsWith(w, S_PONG)

\* C3: a handled line "PING <arg>" has given exactly one Ping event, with <arg>
\* lower-cased and one leading ":" removed; the lines written that begin with
\* PONG are, in order, "PONG :<target>\r\n" for each Ping event handled, so
\* none is written without its Ping event
C3_PingPong ==
    /\ \A i \in 1..Len(RawsHandled) :
           IsPingLine(RawsHandled[i].args[1]) =>
               EventsOfLine(RawsHandled[i].line)
                   = <<Ev("ping", <<PingTarget(RawsHandled[i].args[1])>>)>>
    /\ SelectSeq(written, IsPong)
           = [i \in 1..Len(PingsHandled) |->
                 S_PONG \o <<SP, COLON>> \o PingsHandled[i].args[1] \o CRLF]
    /\ L_PING \in {RawsHandled[i].args[1] : i \in 1..Len(RawsHandled)} /\ queue = <<>>
           => SelectSeq(written, IsPong) = <<<<"P","O","N","G"," ",":","i","r","c",".","e","x","a","m","p","l","e",".","n","e","t">> \o CRLF>>

\* "PING :Irc.A" has been answered with the lower-cased target
C3_Witness ==
    \E i \in 1..Len(written) : written[i] = <<"P","O","N","G"," ",":","i","r","c",".","a">> \o CRLF

---------------------------------------------------------------------------
(* Properties of the numeric branch *)

FirstTokens == {S_PING, S_NICK, S_TOPIC, S_NETINFO}
SecondTokens == {S_PRIVMSG, S_NOTICE, S_JOIN, S_PART, S_QUIT, S_NICK, S_MOTD}

\* the line at the head of the queue, about to be handled
HeadLine == Head(queue).args[1]
HeadTokens == split(HeadLine, SP)

\* a step in which the manager hands a Raw event to onRAW; the transport and
\* the application do nothing in it
RawStep ==
    /\ Len(wire') = Len(wire)
    /\ calls' = calls
    /\ HandleRaw

\* a numeric reply with the given code and all of source, code, target, text
IsNumericLine(tokens, code) ==
    /\ Len(tokens) >= 4
    /\ tokens[1] \notin FirstTokens
    /\ IsInt(tokens[2])
    /\ int(tokens[2]) = code

\* the greeting patterns in the order the source lists them
Greetings(message) == <<Greeting1(message), Greeting2(message), Greeting3(message)>>
SomeGreeting(message) == \E k \in 1..3 : Greetings(message)[k].matched
FirstGreeting(message) ==
    Greetings(message)[Min({k \in 1..3 : Greetings(message)[k].matched})]

\* C5: a 001 line whose message matches a greeting pattern: the first pattern
\* in source order that matches gives the user part; nick is set from its
\* sourceSplit, ident and host are set when the user part has the form
\* nick!ident@host and keep their values otherwise; the example line gives
\* network ExampleNet, nick bob, ident b, host host
C5_Welcome ==
    [][ RawStep /\ IsNumericLine(HeadTokens, 1) /\ SomeGreeting(NumericMessage(HeadTokens))
        => LET user == FirstGreeting(NumericMessage(HeadTokens)).user
               ss == sourceSplit(user)
           IN  /\ getNick(_info') = ss[1]
               /\ getIdent(_info') = (IF sourceMatches(user) THEN ss[2] ELSE getIdent(_info))
               /\ getHost(_info') = (IF sourceMatches(user) THEN ss[3] ELSE getHost(_info))
               /\ HeadLine = L_WELCOME_both => getNick(_info') = <<"c">>
               /\ HeadLine = L_WELCOME_example =>
                      /\ getNetwork(_info') = <<"E","x","a","m","p","l","e","N","e","t">>
                      /\ getNick(_info') = <<"b","o","b">>
                      /\ getIdent(_info') = <<"b">>
                      /\ getHost(_info') = <<"h","o","s","t">> ]_vars

\* after the example greeting, a greeting with a bare nick: nick and network
\* are the new ones, ident and host the ones the first greeting set
C5_Witness ==
    /\ getNick(_info) = <<"j","o","e">>
    /\ getNetwork(_info) = <<"U","n">>
    /\ getIdent(_info) = <<"b">>
    /\ getHost(_info) = <<"h","o","s","t">>

\* C6: a 001 greeting of the variant without a network name leaves the
\* network field as it was
C6_NetworkLeftAbsent ==
    [][ /\ HandleRaw
        /\ IsNumericLine(HeadTokens, 1)
        /\ SomeGreeting(NumericMessage(HeadTokens))
        /\ ~FirstGreeting(NumericMessage(HeadTokens)).hasNetwork
        => getNetwork(_info') = getNetwork(_info) ]_vars

\* C7: a 001 line whose message matches no greeting pattern does not fail,
\* its Numeric event is pushed with source, target, code, arg and message,
\* and the session record is unchanged
C7_NoGreetingStillNumeric ==
    [][ HandleRaw /\ IsNumericLine(HeadTokens, 1) /\ ~SomeGreeting(NumericMessage(HeadTokens))
        => /\ err' = NoErr
           /\ _info' = _info
           /\ emitted' = Append(emitted,
                  Ev("numeric", <<SourceOf(HeadTokens), lower(HeadTokens[3]), 1,
                                  NumericArg(HeadTokens), NumericMessage(HeadTokens)>>)
                  @@ [line |-> Head(queue).line]) ]_vars

\* a line of no known command shape
IsUnknownLine(tokens) ==
    /\ tokens[1] \notin FirstTokens
    /\ \/ Len(tokens) < 2
       \/ ~IsInt(tokens[2]) /\ tokens[2] \notin SecondTokens

\* C8: a line of no known command shape, the empty line and one-token lines
\* included, gives no typed event, no failure and no change of the session record
C8_MissIsSilent ==
    [][ HandleRaw /\ IsUnknownLine(HeadTokens)
        => /\ err' = NoErr
           /\ emitted' = emitted
           /\ _info' = _info ]_vars

---------------------------------------------------------------------------
(* Properties of the commands *)

\* the step is a call of the command called name
IsCall(name) == calls' = calls + 1 /\ lastCall'.name = name

\* C9: ircNICK writes one line: the extended form when idle, signon, ident,
\* host, server, hops and name are all given, the short form otherwise
C9_NickForm ==
    [][ IsCall("ircNICK")
        => LET a == lastCall'.args
               all == /\ a[2] # NoneInt /\ a[3] # NoneInt /\ a[4] # None /\ a[5] # None
                      /\ a[6] # None /\ a[7] # NoneInt /\ a[8] # None
           IN  written' = Append(written,
                   (IF all
                    THEN Words(<<S_NICK, a[1], fmt_d(a[2]), fmt_d(a[3]), a[4], a[5], a[6],
                                 fmt_d(a[7]), <<COLON>> \o a[8]>>)
                    ELSE Words(<<S_NICK, a[1]>>)) \o CRLF) ]_vars

\* C10: ircMODE returns and writes one line, "MODE :modes" or
\* "MODE channel :modes", after ":source " when a source is given
C10_ModeWritesOneLine ==
    [][ IsCall("ircMODE")
        => LET a == lastCall'.args
           IN  /\ err' = NoErr
               /\ written' = Append(written,
                      Words((IF a[3] = None THEN <<>> ELSE <<<<COLON>> \o a[3]>>)
                            \o <<S_MODE>>
                            \o (IF a[2] = None THEN <<>> ELSE <<a[2]>>)
                            \o << <<COLON>> \o a[1]>>) \o CRLF) ]_vars

RoundTripCommands == {"ircPRIVMSG", "ircNOTICE", "ircJOIN", "ircPART", "ircQUIT", "ircNICK"}

\* the event e is the one the claim expects for the command name called with
\* the arguments a; a source that was not given is not compared
IsRoundTrip(name, a, e) ==
    CASE name = "ircPRIVMSG" ->
            /\ e.kind = "message"
            /\ e.args[2] = a[1] /\ e.args[3] = a[2]
            /\ a[3] # None => e.args[1] = a[3]
      [] name = "ircNOTICE" ->
            /\ e.kind = "notice"
            /\ e.args[2] = a[1] /\ e.args[3] = a[2]
            /\ a[3] # None => e.args[1] = a[3]
      [] name = "ircJOIN" ->
            /\ e.kind = "join"
            /\ e.args[2] = a[1]
            /\ a[3] # None => e.args[1] = a[3]
      [] name = "ircPART" ->
            /\ e.kind = "part"
            /\ e.args[2] = a[1] /\ e.args[3] = a[2]
            /\ a[3] # None => e.args[1] = a[3]
      [] name = "ircQUIT" ->
            /\ e.kind = "quit"
            /\ e.args[2] = a[1]
            /\ a[2] # None => e.args[1] = a[2]
      [] name = "ircNICK" ->
            \/ e.kind = "nick" /\ e.args[2] = a[1]
            \/ /\ e.kind = "newnick"
               /\ Len(e.args) = 8
               /\ \A i \in 1..8 : e.args[i] = a[i]

\* C4: the line one of the six commands wrote, fed back, gives the one event
\* of its kind whose fields are the arguments of the command
C4_RoundTrip ==
    [][ HandleRaw /\ calls = 1 /\ lastCall.name \in RoundTripCommands
        => /\ Len(emitted') = Len(emitted) + 1
           /\ IsRoundTrip(lastCall.name, lastCall.args, emitted'[Len(emitted')]) ]_vars

---------------------------------------------------------------------------
(* Properties of the typed events *)

\* a line "<prefix> <command> ..." that none of the four first-token branches takes
IsPrefixed(tokens, command) ==
    /\ Len(tokens) >= 3
    /\ tokens[1] \notin FirstTokens
    /\ tokens[2] = command

\* the events a step has added to the queue
Added == SubSeq(emitted', Len(emitted) + 1, Len(emitted'))

\* the nick part of a prefix, a leading colon removed
NickPart(prefix) == sourceSplit(strip(prefix, FALSE))[1]

\* C11: a JOIN line with a comma-separated list of n channels gives n Join
\* events, in list order, all with the source of the line; ":a!i@h JOIN #x,#y"
\* gives Join for #x, then Join for #y
C11_JoinPerChannel ==
    [][ RawStep /\ IsPrefixed(HeadTokens, S_JOIN)
        => LET list == split(strip(HeadTokens[3], FALSE), ",")
           IN  /\ err' = NoErr
               /\ Len(Added) = Len(list)
               /\ \A i \in 1..Len(list) :
                      /\ Added[i].kind = "join"
                      /\ Added[i].args = <<lower(NickPart(HeadTokens[1])), lower(list[i])>>
               /\ HeadLine = L_JOIN
                    => /\ Len(Added) = 2
                       /\ Added[1].args = <<<<"a">>, <<"#","x">>>>
                       /\ Added[2].args = <<<<"a">>, <<"#","y">>>> ]_vars

\* both Join events of ":a!i@h JOIN #x,#y" are in the queue, #x before #y
C11_Witness ==
    \E i \in 1..Len(emitted) : \E j \in (i + 1)..Len(emitted) :
        /\ emitted[i].kind = "join" /\ emitted[i].args = <<<<"a">>, <<"#","x">>>>
        /\ emitted[j].kind = "join" /\ emitted[j].args = <<<<"a">>, <<"#","y">>>>
        /\ emitted[i].line = emitted[j].line

\* C12: a NICK line with a prefix sets the session nick to the new nick
\* (colon-stripped, lower-cased) when the session nick is set and equals the
\* nick part of the prefix whatever the case of either, in the step that emits
\* the Nick event; otherwise it changes no session field; either way it emits
\* exactly one Nick event
C12_OwnNick ==
    [][ RawStep /\ IsPrefixed(HeadTokens, S_NICK)
        => LET from == NickPart(HeadTokens[1])
               new == lower(strip(HeadTokens[3], FALSE))
               own == getNick(_info) # None /\ lower(getNick(_info)) = lower(from)
           IN  /\ own => _info' = [_info EXCEPT !["nick"] = new]
               /\ ~own => _info' = _info
               /\ Len(Added) = 1
               /\ Added[1].kind = "nick"
               /\ Added[1].args[1] = lower(from)
               /\ Added[1].args[2] = new ]_vars

\* the nick stored in capitals by a greeting has been replaced by the new nick
\* of a NICK line whose prefix wrote it in small letters
C12_Witness ==
    /\ getNick(_info) = <<"j","2">>
    /\ \E i \in 1..Len(emitted) :
           emitted[i].kind = "nick" /\ emitted[i].args[1] = <<"j","o","e">>

\* the text of a PRIVMSG or NOTICE line: the tokens after the target, joined,
\* one leading colon removed
TextOf(tokens) ==
    LET rest == join(SubSeq(tokens, 4, Len(tokens)), SP)
    IN  IF rest # <<>> /\ rest[1] = COLON THEN Tail(rest) ELSE rest

\* the first word of a text and the words after it
FirstWord(text) == split(text, SP)[1]
OtherWords(text) == join(Tail(split(text, SP)), SP)

\* the classification of PRIVMSG and NOTICE lines, for a given way Clean of
\* clearing the bytes of a CTCP text
Classified(Clean(_)) ==
    /\ RawStep /\ IsPrefixed(HeadTokens, S_PRIVMSG)
        => LET text == TextOf(HeadTokens)
           IN  /\ Len(Added) = 1
               /\ Added[1].kind = "ctcp" <=> (text # <<>> /\ text[1] = CTCPDELIM)
               /\ Added[1].kind = "ctcp"
                    => /\ Added[1].args[3] = lower(FirstWord(Clean(text)))
                       /\ Added[1].args[4] = OtherWords(Clean(text))
               /\ Added[1].kind # "ctcp"
                    => /\ Added[1].kind = "message"
                       /\ Added[1].args[3] = text
               /\ HeadLine = L_CTCP
                    => Added[1].args = <<<<"a","l","i","c","e">>, <<"#","c","h","a","n">>,
                                         <<"v","e","r","s","i","o","n">>, <<>>>>
    /\ RawStep /\ IsPrefixed(HeadTokens, S_NOTICE)
        => /\ Len(Added) = 1
           /\ Added[1].kind = "notice"
           /\ Added[1].args[3] = TextOf(HeadTokens)

DelimitersRemoved(text) == remove(text, CTCPDELIM)
DelimitersAndBoldRemoved(text) == remove(remove(text, CTCPDELIM), BOLD)

\* C13 as stated: a PRIVMSG line gives a Ctcp event exactly when its
\* colon-stripped text is non-empty and begins with 0x01, with ctcpType the
\* lower-cased first word of the text without its 0x01 bytes and text the
\* other words; any other PRIVMSG gives a Message event; a NOTICE line always
\* gives a Notice event with the text as it is
C13_DelimitersOnly == [][Classified(DelimitersRemoved)]_vars

\* C13 amended: the same, the words of a Ctcp event being taken from the text
\* without its 0x01 bytes and without its 0x02 bytes
C13_Classification == [][Classified(DelimitersAndBoldRemoved)]_vars

\* the Ctcp event of a PRIVMSG whose text had 0x02 bytes between its 0x01 bytes
C13_Witness ==
    \E i \in 1..Len(emitted) :
        /\ emitted[i].kind = "ctcp"
        /\ emitted[i].args[3] = <<"a","c","t","i","o","n">>
        /\ emitted[i].args[4] = <<"h","i"," ","x">>

\* C14: a line "NICK nick idle signon ident host server hops :name" gives one
\* NewNick event with the eight fields nick, idle seconds, signon time, ident,
\* host, server, hop count and real name: the three numbers as integers, the
\* identifiers lower-cased, the real name colon-stripped
C14_NewNickFields ==
    [][ /\ RawStep
        /\ HeadTokens[1] = S_NICK
        /\ Len(HeadTokens) >= 9
        /\ IsInt(HeadTokens[3]) /\ IsInt(HeadTokens[4]) /\ IsInt(HeadTokens[8])
        => /\ Len(Added) = 1
           /\ Added[1].kind = "newnick"
           /\ Len(Added[1].args) = 8
           /\ Added[1].args[1] = lower(HeadTokens[2])
           /\ Added[1].args[2] = int(HeadTokens[3])
           /\ Added[1].args[3] = int(HeadTokens[4])
           /\ Added[1].args[4] = lower(HeadTokens[5])
           /\ Added[1].args[5] = lower(HeadTokens[6])
           /\ Added[1].args[6] = lower(HeadTokens[7])
           /\ Added[1].args[7] = int(HeadTokens[8])
           /\ Added[1].args[8] = strip(join(SubSeq(HeadTokens, 9, Len(HeadTokens)), SP), FALSE) ]_vars

\* C16: a line whose handling fails part-way, as every line with fewer tokens
\* than its shape requires does (a 002 line with a message of fewer than seven
\* words, a numeric line of fewer than four tokens), leaves every session field
\* as it was
C16_FailureLeavesSession ==
    [][ RawStep /\ err' # NoErr => _info' = _info ]_vars

\* C17: a line is taken by the numeric branch exactly when its first token is
\* none of PING, NICK, TOPIC, NETINFO and its second token is all digits; such
\* a line of four tokens or more gives exactly one Numeric event whose code is
\* the value of the second token; a second token that only begins with digits
\* is not taken as a code, so it gives no Numeric event and no failed
\* conversion to an integer
C17_NumericIffDigits ==
    [][ RawStep /\ Len(HeadTokens) >= 2 /\ HeadTokens[1] \notin FirstTokens
        => /\ IsInt(HeadTokens[2]) /\ Len(HeadTokens) >= 4
                => /\ Len(Added) = 1
                   /\ Added[1].kind = "numeric"
                   /\ Added[1].args[3] = int(HeadTokens[2])
           /\ ~IsInt(HeadTokens[2])
                => /\ \A i \in 1..Len(Added) : Added[i].kind # "numeric"
                   /\ err' # ValueError ]_vars

\* a text without its one leading colon
Uncolon(text) == IF text # <<>> /\ text[1] = COLON THEN Tail(text) ELSE text

\* C18: the Numeric event of a numeric line has, when the fourth token starts
\* with a colon, no arg and as message the tokens from the fourth on, joined,
\* without the leading colon; otherwise its arg is the fourth token, of
\* whatever length, and its message the tokens from the fifth on, joined,
\* without a leading colon
C18_ArgAndMessage ==
    [][ /\ RawStep
        /\ Len(HeadTokens) >= 4 /\ HeadTokens[1] \notin FirstTokens /\ IsInt(HeadTokens[2])
        /\ Len(Added) = 1 /\ Added[1].kind = "numeric"
        => LET fourth == HeadTokens[4]
               from(k) == join(SubSeq(HeadTokens, k, Len(HeadTokens)), SP)
           IN  IF fourth # <<>> /\ fourth[1] = COLON
               THEN Added[1].args[4] = None /\ Added[1].args[5] = Uncolon(from(4))
               ELSE Added[1].args[4] = fourth /\ Added[1].args[5] = Uncolon(from(5)) ]_vars

\* a line with the keyword of one of the branches of onRAW
KnownShape(tokens) == ~IsUnknownLine(tokens)

---------------------------------------------------------------------------
(* Properties of the session record *)

\* what the seven accessors return
Accessors(info) == <<getNick(info), getIdent(info), getHost(info), getServer(info),
                     getServerVersion(info), getNetwork(info), getName(info)>>

\* the step is a documented trigger for session field k
IsTrigger(k) ==
    \/ /\ calls' = calls + 1
       /\ lastCall'.name = "ircUSER"
       /\ k \in {"ident", "host", "server", "name"}
    \/ /\ RawStep
       /\ IsNumericLine(HeadTokens, RPL_WELCOME)
       /\ k \in {"network", "nick", "ident", "host"}
    \/ /\ RawStep
       /\ IsNumericLine(HeadTokens, RPL_YOURHOST)
       /\ k \in {"server", "serverVersion"}
    \/ /\ RawStep
       /\ IsPrefixed(HeadTokens, S_NICK)
       /\ getNick(_info) # None
       /\ lower(getNick(_info)) = lower(NickPart(HeadTokens[1]))
       /\ k = "nick"

\* C20: a step changes a session field only if it is ircUSER (ident, host,
\* server, name), the handling of a 001 line (network, nick, ident, host), of a
\* 002 line (server, serverVersion) or of a prefixed NICK line from the own
\* nick (nick); every other line, every other command and onREAD change none;
\* and an accessor that has returned a value never returns None afterwards
C20_SessionTriggers ==
    [][ /\ \A k \in InfoKeys : _info'[k] # _info[k] => IsTrigger(k)
        /\ \A i \in 1..7 : Accessors(_info)[i] # None => Accessors(_info')[i] # None ]_vars

\* all four triggers have acted: the own nick was changed by a NICK line after
\* a 001 line, a 002 line gave the version, ircUSER gave the name
C20_Witness ==
    /\ getNick(_info) = <<"r","o","b">>
    /\ getNetwork(_info) = <<"E","x","a","m","p","l","e","N","e","t">>
    /\ getServerVersion(_info) = <<"V">>
    /\ getName(_info) = A_Bob
    /\ calls = 1
---------------------------------------------------------------------------
(* Properties of the source functions *)

\* s is nick!ident@host: a "!" that is not its first character, and an "@"
\* somewhere after that "!"
HasSourceForm(s) ==
    /\ Len(s) >= 1
    /\ s[1] # "!"
    /\ \E b \in 2..Len(s) : \E a \in (b + 1)..Len(s) : s[b] = "!" /\ s[a] = "@"

\* over the strings of a set S: joining the parts of a string of the form
\* gives the string back, and a string not of the form is split into itself
\* and two None
SourceRoundTrip(S) ==
    /\ CallSourceSplit /\ lastCall'.args[1] \in S /\ ~HasSourceForm(lastCall'.args[1])
        => returned' = <<lastCall'.args[1], None, None>>
    /\ CallSourceJoin /\ lastCall.args[1] \in S /\ HasSourceForm(lastCall.args[1])
        => returned' = lastCall.args[1]

====
